---------------------------- MODULE Spec2Model ----------------------------
(***************************************************************************)
(* The Atom document adapter of vscode-languageserver-node                 *)
(* (client/src/utils/atom-shim.ts) and the geometry types it is built on   *)
(* (vscode-shim: Position, Range).                                         *)
(*                                                                         *)
(* Several specifications share the module's variables:                    *)
(*   Spec          the adapter's life cycle: createTextDocument, the       *)
(*                 host's change / destroy / save notifications, save()    *)
(*   SpecValidate  the position queries on one buffer: validatePosition,   *)
(*                 validateRange, offsetAt                                 *)
(*   SpecWord      getWordRangeAtPosition and the editor's cursors         *)
(*   SpecEdit      one WorkspaceEdit under replace / insert / delete / set *)
(*   SpecDispose   one Disposable.from(...) and the calls of its dispose() *)
(*   SpecGeometry  Position, Range and Selection: comparisons,             *)
(*                 constructors, intersection                              *)
(* A specification leaves the variables of the others at their initial     *)
(* values.                                                                 *)
(***************************************************************************)
EXTENDS Integers, Sequences, FiniteSets

VARIABLES
    uri,          \* editor -> the string editor.getURI() returns
    alive,        \* editor -> the host has not destroyed it
    documents,    \* the registry: uri -> adapter id, Absent when no entry
    adapters,     \* adapter id -> [editor, version]; the ids are 1..Len
    listeners,    \* the callbacks registered on the editors' emitters
    promises,     \* promise id -> the promise a save() call returned
    lastEvent,    \* the call or host notification the last step handled
    lines,        \* the buffer: the length of each of its lines
    cursors,      \* the editor's cursors: a set of [id, point]
    op,           \* the adapter method that ran last
    arg,          \* its argument
    ret,          \* what it returned
    hostPoint,    \* the point it handed to the host buffer
    values,       \* WorkspaceEdit._values: a sequence of [uri, edits]
    index,        \* WorkspaceEdit._index: uri string -> position in values
    arrays,       \* the TextEdit arrays: array id -> its elements
    calls,        \* the calls made on the WorkspaceEdit, in order
    disposables,  \* the arguments Disposable.from captured, or Undefined
    callOnDispose, \* the composite's _callOnDispose is still a function
    disposeCalls, \* object -> the times its dispose() was invoked
    composites    \* the times dispose() was called on the composite

lifeVars  == <<uri, alive, documents, adapters, listeners, promises,
               lastEvent>>
queryVars == <<lines, cursors, op, arg, ret, hostPoint>>
editVars  == <<values, index, arrays, calls>>
disposeVars == <<disposables, callOnDispose, disposeCalls, composites>>
objVars   == <<editVars, disposeVars>>
vars      == <<uri, alive, documents, adapters, listeners, promises,
               lastEvent, lines, cursors, op, arg, ret, hostPoint,
               values, index, arrays, calls,
               disposables, callOnDispose, disposeCalls, composites>>

---------------------------------------------------------------------------
(* Bounds of the life-cycle model *)

MaxAdapters == 2
MaxVersion == 3
MaxPromises == 2

Editors == {"e1", "e2"}
Uris == {"file:///a", "file:///b"}
Absent == 0
None == "none"

Event(kind, e) == [kind |-> kind, editor |-> e]

---------------------------------------------------------------------------
(* The host's emitters.  A listener is one callback registered with        *)
(* editor.onDidChange / onDidDestroy / onDidSave; dispose() of the         *)
(* subscription removes it.  owner is the adapter the callback belongs to, *)
(* or, for a save callback, the promise it resolves.                       *)

Listener(e, kind, owner) == [kind |-> kind, editor |-> e, owner |-> owner]

\* createTextDocument: editor.onDidDestroy(() => { disposer.dispose(); delete documents[uri] })
RegistryDestroyListener(e, a) == Listener(e, "registryDestroy", a)
\* constructor: editor.onDidChange(() => this.version++)
ChangeListener(e, a) == Listener(e, "change", a)
\* constructor: editor.onDidDestroy(() => disposer.dispose())
AdapterDestroyListener(e, a) == Listener(e, "adapterDestroy", a)
\* save: this.editor.onDidSave(() => { disposer.dispose(); resolve(true) })
SaveListener(e, p) == Listener(e, "save", p)

On(e, kind) == {l \in listeners : l.editor = e /\ l.kind = kind}

AdapterIds == 1..Len(adapters)
PromiseIds == 1..Len(promises)

---------------------------------------------------------------------------
(* AtomTextDocument.constructor *)

\* this.version = 1
InitialVersion == 1

\* the two subscriptions the constructor makes on its editor
ConstructorSubscriptions(e, a) ==
    {ChangeListener(e, a), AdapterDestroyListener(e, a)}

NewAdapter(e) == [editor |-> e, version |-> InitialVersion]

(* createTextDocument(editor) *)
CreateTextDocument(e) ==
    /\ alive[e]
    /\ Len(adapters) < MaxAdapters
    /\ LET a == Len(adapters) + 1 IN
        /\ adapters' = Append(adapters, NewAdapter(e))
        /\ listeners' = listeners \cup {RegistryDestroyListener(e, a)}
                                  \cup ConstructorSubscriptions(e, a)
        /\ documents' = [documents EXCEPT ![uri[e]] = a]
    /\ lastEvent' = Event("createTextDocument", e)
    /\ UNCHANGED <<uri, alive, promises>>
    /\ UNCHANGED queryVars
    /\ UNCHANGED objVars

---------------------------------------------------------------------------
(* The host delivers a change notification for editor e: every change      *)
(* callback registered on e runs.                                          *)

OnDidChangeKeepsVersion(v) == v
\* () => this.version++
OnDidChange(v) == v + 1

HostChange(e) ==
    /\ alive[e]
    /\ \A a \in AdapterIds : adapters[a].version < MaxVersion
    /\ lastEvent' = Event("change", e)
    /\ adapters' = [a \in AdapterIds |->
                      IF ChangeListener(e, a) \in listeners
                      THEN [adapters[a] EXCEPT !.version = OnDidChange(@)]
                      ELSE adapters[a]]
    /\ UNCHANGED <<uri, alive, documents, listeners, promises>>
    /\ UNCHANGED queryVars
    /\ UNCHANGED objVars

---------------------------------------------------------------------------
(* The host destroys editor e and delivers the destroy notification: every *)
(* destroy callback registered on e runs (the emitter calls the callbacks  *)
(* it held when the emit began).                                           *)

\* what the callbacks of createTextDocument and of the constructor dispose
DisposedOnDestroy(e) ==
    On(e, "registryDestroy")
      \cup {ChangeListener(e, l.owner) : l \in On(e, "adapterDestroy")}

\* delete documents[uri], run by each registryDestroy callback
RegistryAfterDestroy(e) ==
    IF On(e, "registryDestroy") # {}
    THEN [documents EXCEPT ![uri[e]] = Absent]
    ELSE documents

HostDestroy(e) ==
    /\ alive[e]
    /\ alive' = [alive EXCEPT ![e] = FALSE]
    /\ listeners' = listeners \ DisposedOnDestroy(e)
    /\ documents' = RegistryAfterDestroy(e)
    /\ lastEvent' = Event("destroy", e)
    /\ UNCHANGED <<uri, adapters, promises>>
    /\ UNCHANGED queryVars
    /\ UNCHANGED objVars

---------------------------------------------------------------------------
(* save() and the host's save notification *)

NewPromiseResolved(a) == [adapter |-> a, state |-> "true", notified |-> FALSE]
\* new Promise((resolve, reject) => ...): pending until a callback settles
\* it.  notified records that the host has delivered a save notification
\* for the adapter's editor since the save() call began.
NewPromise(a) == [adapter |-> a, state |-> "pending", notified |-> FALSE]

\* The host delivers a save notification for editor e with the promises ps
\* and the listeners ls: each save callback on e runs, resolve(true).
ResolvedBySave(ps, ls, e) ==
    [p \in 1..Len(ps) |->
        LET q == IF adapters[ps[p].adapter].editor = e
                 THEN [ps[p] EXCEPT !.notified = TRUE]
                 ELSE ps[p]
        IN IF SaveListener(e, p) \in ls /\ q.state = "pending"
           THEN [q EXCEPT !.state = "true"]
           ELSE q]

\* a callback that keeps its subscription
DisposedBySaveNothing(ls, e) == {}
\* ... and disposes its own subscription, disposer.dispose()
DisposedBySave(ls, e) == {l \in ls : l.editor = e /\ l.kind = "save"}

(* save(): the executor subscribes to onDidSave and calls editor.save().   *)
(* The host either completes the save inside that call (sync) and delivers *)
(* the save notification at once, or returns without having saved: it      *)
(* saves later (HostDidSave) or not at all.                                *)
Save(a, sync) ==
    /\ a \in AdapterIds
    /\ alive[adapters[a].editor]
    /\ Len(promises) < MaxPromises
    /\ LET e  == adapters[a].editor
           ps == Append(promises, NewPromise(a))
           ls == listeners \cup {SaveListener(e, Len(promises) + 1)}
       IN IF sync
          THEN /\ promises' = ResolvedBySave(ps, ls, e)
               /\ listeners' = ls \ DisposedBySave(ls, e)
          ELSE /\ promises' = ps
               /\ listeners' = ls
    /\ lastEvent' = Event(IF sync THEN "saveSync" ELSE "save", adapters[a].editor)
    /\ UNCHANGED <<uri, alive, documents, adapters>>
    /\ UNCHANGED queryVars
    /\ UNCHANGED objVars

(* The host delivers a save notification for editor e (a save an earlier   *)
(* save() call requested, or one the user made).                           *)
HostDidSave(e) ==
    /\ alive[e]
    /\ promises' = ResolvedBySave(promises, listeners, e)
    /\ listeners' = listeners \ DisposedBySave(listeners, e)
    /\ lastEvent' = Event("didSave", e)
    /\ UNCHANGED <<uri, alive, documents, adapters>>
    /\ UNCHANGED queryVars
    /\ UNCHANGED objVars

---------------------------------------------------------------------------
QueryIdle ==
    /\ lines = <<0>>
    /\ cursors = {}
    /\ op = None
    /\ arg = None
    /\ ret = None
    /\ hostPoint = None

\* Two editors show the same resource (a split pane) or different ones;
\* which uri the first one has makes no difference.
\* no WorkspaceEdit in use: new WorkspaceEdit() and nothing called on it
EditIdle ==
    /\ values = <<>>
    /\ index = <<>>
    /\ arrays = <<>>
    /\ calls = <<>>

\* no composite Disposable made
DisposeIdle ==
    /\ disposables = [defined |-> FALSE, items |-> <<>>]
    /\ callOnDispose = FALSE
    /\ disposeCalls = <<>>
    /\ composites = 0

ObjIdle == EditIdle /\ DisposeIdle

Init ==
    /\ uri \in {f \in [Editors -> Uris] : f["e1"] = "file:///a"}
    /\ alive = [e \in Editors |-> TRUE]
    /\ documents = [u \in Uris |-> Absent]
    /\ adapters = <<>>
    /\ listeners = {}
    /\ promises = <<>>
    /\ lastEvent = Event(None, Absent)
    /\ QueryIdle
    /\ ObjIdle

Next ==
    \/ \E e \in Editors : CreateTextDocument(e)
    \/ \E e \in Editors : HostChange(e)
    \/ \E e \in Editors : HostDestroy(e)
    \/ \E a \in 1..MaxAdapters, sync \in BOOLEAN : Save(a, sync)
    \/ \E e \in Editors : HostDidSave(e)

Spec == Init /\ [][Next]_vars

---------------------------------------------------------------------------
(* Claims about the life cycle, checked under Spec *)

EditorOf(a) == adapters[a].editor

\* C1: an adapter's version is 1 at construction, never decreases, and is
\* strictly larger after every change notification the host delivers for
\* the adapter's editor.
VersionStrictlyIncreases ==
    [][/\ \A a \in 1..Len(adapters') :
             a \notin AdapterIds => adapters'[a].version = 1
       /\ \A a \in AdapterIds :
             /\ adapters'[a].version >= adapters[a].version
             /\ lastEvent' = Event("change", EditorOf(a))
                  => adapters'[a].version > adapters[a].version]_vars

VersionWitness ==
    \E a \in AdapterIds :
        /\ adapters[a].version = 3
        /\ lastEvent = Event("change", EditorOf(a))

\* C2: for every resource identifier at most one adapter exists whose
\* editor has not been destroyed.
OneAdapterPerOpenResource ==
    \A u \in Uris :
        Cardinality({a \in AdapterIds :
                        alive[EditorOf(a)] /\ uri[EditorOf(a)] = u}) <= 1

\* C3: once an editor is destroyed, none of the change and destroy
\* subscriptions made on it by createTextDocument and by the adapter's
\* constructor is still registered.
DestroyDisposesEverySubscription ==
    \A e \in Editors :
        ~alive[e] =>
            \A l \in listeners :
                l.editor = e =>
                    l.kind \notin {"change", "registryDestroy", "adapterDestroy"}

\* C4: a save() promise that has resolved true has seen a save notification
\* of the host delivered after its save() call began.
SaveTrueOnlyAfterHostConfirms ==
    \A p \in PromiseIds : promises[p].state = "true" => promises[p].notified

SaveTrueWitness ==
    \E p, q \in PromiseIds :
        /\ promises[p].state = "true"
        /\ promises[q].state = "pending"
        /\ lastEvent.kind = "didSave"

\* C5: a save() call whose save did not occur settles to false: once the
\* editor is destroyed without the host having delivered any save
\* notification since the call, no notification can follow, and the
\* promise has resolved false.
SaveNotOccurredResolvesFalse ==
    \A p \in PromiseIds :
        (~alive[EditorOf(promises[p].adapter)] /\ ~promises[p].notified)
            => promises[p].state = "false"

\* C18: the registry has an entry for a uri exactly when some editor with
\* that uri that was passed to createTextDocument is not yet destroyed; in
\* particular the destroy of one editor leaves the entry of another open
\* editor of the same uri in place.
RegistryEntryIffOpenEditor ==
    \A u \in Uris :
        documents[u] # Absent
            <=> \E a \in AdapterIds :
                    uri[EditorOf(a)] = u /\ alive[EditorOf(a)]

\* the save callbacks still registered for adapter a
SaveListenersOf(a) ==
    {l \in listeners :
        /\ l.kind = "save"
        /\ l.editor = EditorOf(a)
        /\ promises[l.owner].adapter = a}

\* the save() promises of adapter a not yet resolved
PendingSavesOf(a) ==
    {p \in PromiseIds :
        promises[p].adapter = a /\ promises[p].state = "pending"}

\* C19: the save callbacks an adapter holds on its editor are those of its
\* save() promises not yet resolved, one callback for each.
SaveListenersMatchPending ==
    \A a \in AdapterIds :
        /\ SaveListenersOf(a)
             = {SaveListener(EditorOf(a), p) : p \in PendingSavesOf(a)}
        /\ Cardinality(SaveListenersOf(a)) = Cardinality(PendingSavesOf(a))

SaveListenersWitness ==
    \E a \in AdapterIds :
        /\ Cardinality(PendingSavesOf(a)) = 2
        /\ Cardinality(SaveListenersOf(a)) = 2

---------------------------------------------------------------------------
(* Position and Range (vscode-shim).  ref tells instances apart: an object *)
(* a constructor call makes inside the adapter has ref NewRef, the objects *)
(* a caller passes in have refs of their own.  a = b is then the ===       *)
(* of the source.                                                          *)

NewRef == 0

\* new Position(line, character); the constructor throws on a negative
\* component, which no call of the adapter passes
NewPosition(line, character) ==
    [line |-> line, character |-> character, ref |-> NewRef]

\* Position.isBefore
isBefore(p, q) ==
    IF p.line < q.line THEN TRUE
    ELSE IF q.line < p.line THEN FALSE
    ELSE p.character < q.character

\* Position.isEqual
isEqual(p, q) == p.line = q.line /\ p.character = q.character

\* a constructor that stores the two points as given
NewRangeAsGiven(start, end) == [ref |-> NewRef, start |-> start, end |-> end]

\* new Range(start, end): the end of the constructor, which orders the two
NewRange(start, end) ==
    IF isBefore(start, end)
    THEN [ref |-> NewRef, start |-> start, end |-> end]
    ELSE [ref |-> NewRef, start |-> end, end |-> start]

\* new Range(startLine, startColumn, endLine, endColumn)
NewRangeOfNumbers(startLine, startColumn, endLine, endColumn) ==
    NewRange(NewPosition(startLine, startColumn),
             NewPosition(endLine, endColumn))

---------------------------------------------------------------------------
(* The conversions between the host's Point / Range and Position / Range *)

convertToPosition(point) == NewPosition(point.row, point.column)

convertFromPosition(position) ==
    [row |-> position.line, column |-> position.character]

convertToRange(range) ==
    NewRange(convertToPosition(range.start), convertToPosition(range.end))

---------------------------------------------------------------------------
(* validatePosition and validateRange.  ls is what                         *)
(* this.editor.getBuffer().getLines() returns, here the length of each     *)
(* line; line k of the source is ls[k + 1].                                *)

Clamped(line, character, hasChanged) ==
    [line |-> line, character |-> character, hasChanged |-> hasChanged]

validatePositionLastLineStart(ls, position) ==
    LET c == IF position.line < 0 THEN Clamped(0, 0, TRUE)
             ELSE IF position.line >= Len(ls)
             THEN Clamped(Len(ls) - 1, 0, TRUE)
             ELSE LET maxCharacter == ls[position.line + 1] IN
                  IF position.character < 0
                  THEN Clamped(position.line, 0, TRUE)
                  ELSE IF position.character > maxCharacter
                  THEN Clamped(position.line, maxCharacter, TRUE)
                  ELSE Clamped(position.line, position.character, FALSE)
    IN IF ~c.hasChanged THEN position ELSE NewPosition(c.line, c.character)

validatePositionCopies(ls, position) ==
    LET c == IF position.line < 0 THEN Clamped(0, 0, TRUE)
             ELSE IF position.line >= Len(ls)
             THEN Clamped(Len(ls) - 1, ls[Len(ls)], TRUE)
             ELSE LET maxCharacter == ls[position.line + 1] IN
                  IF position.character < 0
                  THEN Clamped(position.line, 0, TRUE)
                  ELSE IF position.character > maxCharacter
                  THEN Clamped(position.line, maxCharacter, TRUE)
                  ELSE Clamped(position.line, position.character, FALSE)
    IN NewPosition(c.line, c.character)

validatePosition(ls, position) ==
    LET c == IF position.line < 0 THEN Clamped(0, 0, TRUE)
             ELSE IF position.line >= Len(ls)
             THEN Clamped(Len(ls) - 1, ls[Len(ls)], TRUE)
             ELSE LET maxCharacter == ls[position.line + 1] IN
                  IF position.character < 0
                  THEN Clamped(position.line, 0, TRUE)
                  ELSE IF position.character > maxCharacter
                  THEN Clamped(position.line, maxCharacter, TRUE)
                  ELSE Clamped(position.line, position.character, FALSE)
    IN IF ~c.hasChanged THEN position ELSE NewPosition(c.line, c.character)

validateRangeEitherSame(ls, range) ==
    LET start == validatePosition(ls, range.start)
        end   == validatePosition(ls, range.end)
    IN IF start = range.start \/ end = range.end
       THEN range
       ELSE NewRangeOfNumbers(start.line, start.character,
                              end.line, end.character)

validateRange(ls, range) ==
    LET start == validatePosition(ls, range.start)
        end   == validatePosition(ls, range.end)
    IN IF start = range.start /\ end = range.end
       THEN range
       ELSE NewRangeOfNumbers(start.line, start.character,
                              end.line, end.character)

---------------------------------------------------------------------------
(* The host buffer's characterIndexForPosition.  Inside the buffer the     *)
(* index of a point is the characters of the rows before it, one line      *)
(* ending each, plus its column.  For a point outside the buffer the       *)
(* source does not fix the answer: the host clips the point or raises.     *)

\* what a call of the host gives back: a value, or an exception
Returned(value) == [value |-> value, throws |-> FALSE]
Throws == [value |-> -1, throws |-> TRUE]

RECURSIVE RowStart(_, _)
RowStart(ls, row) ==
    IF row = 0 THEN 0 ELSE RowStart(ls, row - 1) + ls[row] + 1

PointInBuffer(ls, point) ==
    /\ point.row \in 0..(Len(ls) - 1)
    /\ point.column \in 0..ls[point.row + 1]

HostClipPoint(ls, point) ==
    IF point.row < 0 THEN [row |-> 0, column |-> 0]
    ELSE IF point.row > Len(ls) - 1
    THEN [row |-> Len(ls) - 1, column |-> ls[Len(ls)]]
    ELSE [row |-> point.row,
          column |-> IF point.column < 0 THEN 0
                     ELSE IF point.column > ls[point.row + 1]
                     THEN ls[point.row + 1]
                     ELSE point.column]

characterIndexForPosition(ls, point) ==
    IF PointInBuffer(ls, point)
    THEN {Returned(RowStart(ls, point.row) + point.column)}
    ELSE {Returned(RowStart(ls, HostClipPoint(ls, point).row)
                      + HostClipPoint(ls, point).column),
          Throws}

---------------------------------------------------------------------------
(* The position queries of one adapter on one buffer *)

MaxLines == 2
MaxLineLen == 2

ArgRef == 1
StartRef == 2
EndRef == 3

\* the buffers: at least one line (a text buffer is never without one)
Buffers ==
    UNION {[1..n -> 0..MaxLineLen] : n \in 1..MaxLines}

\* the Positions a caller can build: one line and one character past the
\* largest buffer
Coordinates == (0..MaxLines) \X (0..(MaxLineLen + 1))

PositionArg(ref, c) == [line |-> c[1], character |-> c[2], ref |-> ref]

\* the Range a caller builds from two Positions, in either order
RangeArg(c, d) ==
    [NewRange(PositionArg(StartRef, c), PositionArg(EndRef, d))
        EXCEPT !.ref = ArgRef]

\* The queries read the buffer and change nothing: a behaviour is one query
\* on one buffer, from the state no query has run in.
ValidatePositionCall(position) ==
    /\ op = None
    /\ op' = "validatePosition"
    /\ arg' = position
    /\ ret' = validatePosition(lines, position)
    /\ hostPoint' = None
    /\ UNCHANGED <<lines, cursors>>
    /\ UNCHANGED lifeVars
    /\ UNCHANGED objVars

ValidateRangeCall(range) ==
    /\ op = None
    /\ op' = "validateRange"
    /\ arg' = range
    /\ ret' = validateRange(lines, range)
    /\ hostPoint' = None
    /\ UNCHANGED <<lines, cursors>>
    /\ UNCHANGED lifeVars
    /\ UNCHANGED objVars

(* offsetAt(position) *)
OffsetAtCall(position) ==
    /\ op = None
    /\ op' = "offsetAt"
    /\ arg' = position
    /\ hostPoint' = convertFromPosition(position)
    /\ ret' \in characterIndexForPosition(lines, convertFromPosition(position))
    /\ UNCHANGED <<lines, cursors>>
    /\ UNCHANGED lifeVars
    /\ UNCHANGED objVars

LifeIdle ==
    /\ uri = [e \in Editors |-> "file:///a"]
    /\ alive = [e \in Editors |-> TRUE]
    /\ documents = [u \in Uris |-> Absent]
    /\ adapters = <<>>
    /\ listeners = {}
    /\ promises = <<>>
    /\ lastEvent = Event(None, Absent)

InitValidate ==
    /\ LifeIdle
    /\ ObjIdle
    /\ lines \in Buffers
    /\ cursors = {}
    /\ op = None
    /\ arg = None
    /\ ret = None
    /\ hostPoint = None

NextValidate ==
    \/ \E c \in Coordinates : ValidatePositionCall(PositionArg(ArgRef, c))
    \/ \E c, d \in Coordinates : ValidateRangeCall(RangeArg(c, d))
    \/ \E c \in Coordinates : OffsetAtCall(PositionArg(ArgRef, c))

SpecValidate == InitValidate /\ [][NextValidate]_vars

---------------------------------------------------------------------------
(* getWordRangeAtPosition and the editor's cursors.  A cursor is           *)
(* [id, point]; the host gives a new cursor an id no cursor of the editor  *)
(* has.  Whether a point is inside a word, and which range the word        *)
(* spans, is the host's answer (its word boundary rules).                  *)

MaxCursors == 1

\* the smallest id no cursor in cs has
FreshCursorId(cs) ==
    CHOOSE i \in 1..(Cardinality(cs) + 1) :
        /\ \A c \in cs : c.id # i
        /\ \A j \in 1..(i - 1) : \E c \in cs : c.id = j

\* editor.addCursorAtBufferPosition(atomPosition): the cursor it returns
addCursorAtBufferPosition(cs, point) ==
    [point |-> point, id |-> FreshCursorId(cs)]

cursorStays(cs, cursor) == cs
\* cursor.destroy()
cursorDestroy(cs, cursor) == {c \in cs : c.id # cursor.id}

\* cursor.getCurrentWordBufferRange(): a range of the cursor's row that
\* holds at least one character and contains the cursor
getCurrentWordBufferRange(ls, point) ==
    {[start |-> [row |-> point.row, column |-> a],
      end   |-> [row |-> point.row, column |-> b]] :
        <<a, b>> \in {w \in (0..ls[point.row + 1]) \X (0..ls[point.row + 1]) :
                        w[1] < w[2] /\ w[1] <= point.column
                                    /\ point.column <= w[2]}}

\* the results of getWordRangeAtPosition with the cursor at point:
\* cursor.isInsideWord() is false (undefined is returned) or true
Undefined == [undefined |-> TRUE]

WordRangeResults(ls, point) ==
    {Undefined}
        \cup {convertToRange(r) : r \in getCurrentWordBufferRange(ls, point)}

(* getWordRangeAtPosition(_position) *)
GetWordRangeAtPositionCall(_position) ==
    LET position     == validatePosition(lines, _position)
        atomPosition == convertFromPosition(position)
        cursor       == addCursorAtBufferPosition(cursors, atomPosition)
        added        == cursors \cup {cursor}
    IN /\ op' = "getWordRangeAtPosition"
       /\ arg' = _position
       /\ hostPoint' = atomPosition
       /\ ret' \in WordRangeResults(lines, atomPosition)
       /\ cursors' = cursorDestroy(added, cursor)
       /\ UNCHANGED lines
       /\ UNCHANGED lifeVars
       /\ UNCHANGED objVars

(* The user adds a cursor at a point of the buffer, or removes one. *)
HostAddCursor(point) ==
    /\ Cardinality(cursors) < MaxCursors
    /\ PointInBuffer(lines, point)
    /\ \A c \in cursors : c.point # point
    /\ cursors' = cursors \cup {addCursorAtBufferPosition(cursors, point)}
    /\ op' = "hostAddCursor"
    /\ arg' = None
    /\ ret' = None
    /\ hostPoint' = None
    /\ UNCHANGED lines
    /\ UNCHANGED lifeVars
    /\ UNCHANGED objVars

HostRemoveCursor(cursor) ==
    /\ cursor \in cursors
    /\ cursors' = cursors \ {cursor}
    /\ op' = "hostRemoveCursor"
    /\ arg' = None
    /\ ret' = None
    /\ hostPoint' = None
    /\ UNCHANGED lines
    /\ UNCHANGED lifeVars
    /\ UNCHANGED objVars

Points == {[row |-> c[1], column |-> c[2]] : c \in Coordinates}

\* The host's word rules are not the buffer's business here: the buffers
\* of this specification have lines of one length.
InitWord ==
    /\ LifeIdle
    /\ ObjIdle
    /\ lines \in {[i \in 1..n |-> MaxLineLen] : n \in 1..MaxLines}
    /\ cursors = {}
    /\ op = None
    /\ arg = None
    /\ ret = None
    /\ hostPoint = None

NextWord ==
    \/ \E c \in Coordinates : GetWordRangeAtPositionCall(PositionArg(ArgRef, c))
    \/ \E point \in Points : HostAddCursor(point)
    \/ \E cursor \in cursors : HostRemoveCursor(cursor)

SpecWord == InitWord /\ [][NextWord]_vars

---------------------------------------------------------------------------
(* Claims about the position queries, checked under SpecValidate *)

InBounds(ls, position) ==
    /\ position.line < Len(ls)
    /\ position.character <= ls[position.line + 1]

\* C6: validatePosition returns a position inside the document: for a line
\* at or past the line count the last line and its length, otherwise the
\* same line and the character clamped into [0, length of that line].
ValidatePositionClamps ==
    op = "validatePosition" =>
        /\ InBounds(lines, ret)
        /\ IF arg.line >= Len(lines)
           THEN /\ ret.line = Len(lines) - 1
                /\ ret.character = lines[Len(lines)]
           ELSE /\ ret.line = arg.line
                /\ ret.character \in 0..lines[arg.line + 1]
                /\ arg.character <= lines[arg.line + 1]
                     => ret.character = arg.character
                /\ arg.character > lines[arg.line + 1]
                     => ret.character = lines[arg.line + 1]

ValidatePositionClampsWitness ==
    /\ op = "validatePosition"
    /\ Len(lines) = 2
    /\ arg.line = 2
    /\ ret.line = 1
    /\ ret.character = 2

\* C7: validatePosition applied to its own result returns that result, and
\* it returns the instance it was given exactly when the position was in
\* bounds.
ValidatePositionIdempotent ==
    op = "validatePosition" =>
        /\ validatePosition(lines, ret) = ret
        /\ (ret = arg) <=> InBounds(lines, arg)

ValidatePositionIdempotentWitness ==
    /\ op = "validatePosition"
    /\ ~InBounds(lines, arg)
    /\ arg.line = 0
    /\ ret.ref = NewRef
    /\ ret.character = 1

\* C8: validateRange returns the Range it was given when both ends are in
\* bounds, and otherwise a new Range from the validated start to the
\* validated end, start before or equal to end.
ValidateRangeClamps ==
    op = "validateRange" =>
        IF InBounds(lines, arg.start) /\ InBounds(lines, arg.end)
        THEN ret = arg
        ELSE /\ ret.ref = NewRef
             /\ isEqual(ret.start, validatePosition(lines, arg.start))
             /\ isEqual(ret.end, validatePosition(lines, arg.end))
             /\ ~isBefore(ret.end, ret.start)

ValidateRangeClampsWitness ==
    /\ op = "validateRange"
    /\ InBounds(lines, arg.start)
    /\ ~InBounds(lines, arg.end)
    /\ ret.ref = NewRef
    /\ isBefore(ret.start, ret.end)

\* C9: offsetAt passes the position through validatePosition before it
\* asks the host buffer: the point the host gets is the validated one, the
\* call does not throw, and the offset is that of the validated position.
OffsetAtValidatesFirst ==
    op = "offsetAt" =>
        LET v == validatePosition(lines, arg) IN
        /\ hostPoint = convertFromPosition(v)
        /\ ~ret.throws
        /\ ret = Returned(RowStart(lines, v.line) + v.character)

---------------------------------------------------------------------------
(* Claims about getWordRangeAtPosition, checked under SpecWord *)

---------------------------------------------------------------------------
(* WorkspaceEdit (vscode-shim).  _values holds [uri, edits] pairs, _index  *)
(* maps a uri's string form to the pair's position.  edits is an array    *)
(* object: the pair holds the array it was given, not a copy, so the       *)
(* arrays are kept apart from the pairs, under an id.                      *)

MaxCalls == 3

\* Uri objects: two instances of one resource and one of another
UriArgs ==
    {[ref |-> ArgRef, str |-> "file:///a"],
     [ref |-> StartRef, str |-> "file:///a"],
     [ref |-> ArgRef, str |-> "file:///b"]}

\* uri.toString()
toString(u) == u.str

\* new TextEdit(range, newText)
NewTextEdit(range, newText) == [range |-> range, newText |-> newText]

EditRanges == {NewRangeOfNumbers(0, 0, 0, 1), NewRangeOfNumbers(1, 0, 1, 1)}
EditPositions == {NewPosition(0, 0)}
NewTexts == {"x"}
\* the array literals a caller passes to set
ArrayLiterals ==
    {<<>>, <<NewTextEdit(NewRangeOfNumbers(0, 0, 0, 1), "y")>>}

\* get(uri) when the uri has no entry: false
NoArray == 0

\* get(uri): the id of the entry's array
get(vs, ix, u) ==
    IF toString(u) \in DOMAIN ix
    THEN vs[ix[toString(u)] + 1].edits
    ELSE NoArray

\* a set that leaves an existing entry as it is
setValuesKeeps(vs, ix, u, edits) ==
    IF toString(u) \notin DOMAIN ix
    THEN Append(vs, [uri |-> u, edits |-> edits])
    ELSE vs

\* set(uri, edits): what it does to _values
setValues(vs, ix, u, edits) ==
    IF toString(u) \notin DOMAIN ix
    THEN Append(vs, [uri |-> u, edits |-> edits])
    ELSE [vs EXCEPT ![ix[toString(u)] + 1].edits = edits]

\* a set that never records the position
setIndexForgets(vs, ix, u) == ix

\* set(uri, edits): what it does to _index; newLen is Len(vs) + 1
setIndex(vs, ix, u) ==
    IF toString(u) \notin DOMAIN ix
    THEN [k \in DOMAIN ix \cup {toString(u)} |->
            IF k = toString(u) THEN (Len(vs) + 1) - 1 ELSE ix[k]]
    ELSE ix

\* entries() and size
entries == values
size == Len(values)

\* one record of the call history
Call(name, u, edits, array) ==
    [uri |-> u, op |-> name, edits |-> edits, array |-> array]

(* replace(uri, range, newText); insert and delete go through it *)
ReplaceStep(name, u, range, newText) ==
    LET edit  == NewTextEdit(range, newText)
        array == get(values, index, u)
    IN  /\ Len(calls) < MaxCalls
        /\ IF array # NoArray
           THEN /\ arrays' = [arrays EXCEPT ![array] = Append(@, edit)]
                /\ values' = values
                /\ index' = index
                /\ calls' = Append(calls, Call(name, u, <<edit>>, array))
           ELSE /\ arrays' = Append(arrays, <<edit>>)
                /\ values' = setValues(values, index, u, Len(arrays) + 1)
                /\ index' = setIndex(values, index, u)
                /\ calls' = Append(calls,
                                   Call(name, u, <<edit>>, Len(arrays) + 1))
        /\ UNCHANGED <<lifeVars, queryVars, disposeVars>>

Replace(u, range, newText) == ReplaceStep("replace", u, range, newText)

(* insert(resource, position, newText) *)
Insert(u, position, newText) ==
    ReplaceStep("insert", u, NewRange(position, position), newText)

(* delete(resource, range) *)
Delete(u, range) == ReplaceStep("delete", u, range, "")

(* set(uri, edits).  The caller passes an array it holds already (id a in *)
(* the heap: one it passed before, or one it read with get or entries) or  *)
(* a new array literal, which gets the next id.                            *)
Set(u, a, literal) ==
    LET given == IF a = Len(arrays) + 1 THEN literal ELSE arrays[a]
    IN  /\ Len(calls) < MaxCalls
        /\ arrays' = IF a = Len(arrays) + 1
                     THEN Append(arrays, literal)
                     ELSE arrays
        /\ values' = setValues(values, index, u, a)
        /\ index' = setIndex(values, index, u)
        /\ calls' = Append(calls, Call("set", u, given, a))
        /\ UNCHANGED <<lifeVars, queryVars, disposeVars>>

\* new WorkspaceEdit()
InitEdit ==
    /\ LifeIdle
    /\ QueryIdle
    /\ DisposeIdle
    /\ EditIdle

NextEdit ==
    \E u \in UriArgs :
        \/ \E range \in EditRanges, newText \in NewTexts :
              Replace(u, range, newText)
        \/ \E position \in EditPositions, newText \in NewTexts :
              Insert(u, position, newText)
        \/ \E range \in EditRanges : Delete(u, range)
        \/ \E a \in 1..(Len(arrays) + 1), literal \in ArrayLiterals :
              Set(u, a, literal)

SpecEdit == InitEdit /\ [][NextEdit]_vars

---------------------------------------------------------------------------
(* Claims about WorkspaceEdit, read against the history of calls *)

\* the uri strings in the order in which the calls first named them
RECURSIVE FirstTouchOrder(_)
FirstTouchOrder(log) ==
    IF log = <<>> THEN <<>>
    ELSE LET before == FirstTouchOrder(SubSeq(log, 1, Len(log) - 1))
             k      == toString(log[Len(log)].uri)
         IN  IF \E i \in 1..Len(before) : before[i] = k
             THEN before
             ELSE Append(before, k)

\* the sequence the calls describe for the uri string k: what the last set
\* gave, then the edits of the later replace / insert / delete calls
RECURSIVE ExpectedEdits(_, _)
ExpectedEdits(log, k) ==
    IF log = <<>> THEN <<>>
    ELSE LET before == ExpectedEdits(SubSeq(log, 1, Len(log) - 1), k)
             c      == log[Len(log)]
         IN  IF toString(c.uri) # k THEN before
             ELSE IF c.op = "set" THEN c.edits
             ELSE before \o c.edits

\* the uri strings under which the array was stored at some time
KeysOfArray(a) ==
    {toString(calls[i].uri) : i \in {j \in 1..Len(calls) : calls[j].array = a}}

\* one entry for each uri string, in the order of first touch
EntriesInFirstTouchOrder ==
    LET order == FirstTouchOrder(calls)
    IN  /\ size = Len(order)
        /\ size = Cardinality({toString(calls[i].uri) : i \in 1..Len(calls)})
        /\ DOMAIN index = {order[i] : i \in 1..Len(order)}
        /\ \A i \in 1..Len(entries) :
              /\ toString(entries[i].uri) = order[i]
              /\ index[order[i]] = i - 1

\* C11 as stated: one entry for each distinct uri string, in the order of
\* first touch, size the number of distinct resources, and the sequence of
\* every resource holds the edits the calls for that resource describe, in
\* call order.
EntriesMatchCalls ==
    /\ EntriesInFirstTouchOrder
    /\ \A i \in 1..Len(entries) :
          arrays[entries[i].edits]
              = ExpectedEdits(calls, toString(entries[i].uri))

\* C11 amended: the same, the sequences being claimed only for a resource
\* whose array was never stored under another resource as well.
EntriesMatchCallsUnlessShared ==
    /\ EntriesInFirstTouchOrder
    /\ \A i \in 1..Len(entries) :
          Cardinality(KeysOfArray(entries[i].edits)) = 1
              => arrays[entries[i].edits]
                    = ExpectedEdits(calls, toString(entries[i].uri))

EntriesWitness ==
    /\ size = 2
    /\ Len(calls) = 3
    /\ Len(arrays[entries[1].edits]) = 2
    /\ Cardinality(KeysOfArray(entries[1].edits)) = 1
    /\ \E i \in 1..Len(calls) :
          /\ toString(calls[i].uri) = toString(entries[1].uri)
          /\ calls[i].uri # entries[1].uri

\* C12: set on a uri that has an entry puts the given sequence in the
\* place of the old one and leaves size, the entry's position and the other
\* entries alone; replace, insert and delete on a uri that has an entry
\* append one edit to the sequence the entry holds at that time.
SetReplacesWholesale ==
    [][Len(calls') = Len(calls) + 1 =>
        LET c == calls'[Len(calls')]
            k == toString(c.uri)
        IN  k \in DOMAIN index =>
              LET i == index[k] + 1
              IN  /\ Len(values') = Len(values)
                  /\ index' = index
                  /\ \A j \in 1..Len(values) :
                        /\ values'[j].uri = values[j].uri
                        /\ j # i => values'[j].edits = values[j].edits
                  /\ IF c.op = "set"
                     THEN /\ values'[i].edits = c.array
                          /\ arrays'[values'[i].edits] = c.edits
                     ELSE /\ values'[i].edits = values[i].edits
                          /\ arrays'[values'[i].edits]
                               = Append(arrays[values[i].edits], c.edits[1])
    ]_vars

SetReplacesWitness ==
    /\ Len(calls) = 3
    /\ size = 1
    /\ calls[1].op = "replace"
    /\ calls[2].op = "set"
    /\ calls[2].array # calls[1].array
    /\ calls[2].edits # <<>>
    /\ calls[3].op = "insert"
    /\ arrays[entries[1].edits] = calls[2].edits \o calls[3].edits

---------------------------------------------------------------------------
(* Disposable.from (vscode-shim).  The composite's _callOnDispose is the   *)
(* closure over the captured arguments; a child is an object with a        *)
(* dispose() method, of which the model counts the invocations, or null.   *)

MaxArgs == 3
MaxObjects == 2
MaxDisposes == 3

Null == 0
Objects == 1..MaxObjects

RECURSIVE SeqsUpTo(_, _)
SeqsUpTo(S, n) ==
    IF n = 0 THEN {<<>>}
    ELSE LET shorter == SeqsUpTo(S, n - 1)
         IN  shorter \cup {Append(q, x) : q \in shorter, x \in S}

\* the argument lists of Disposable.from
ArgLists == SeqsUpTo({Null} \cup Objects, MaxArgs)

\* a loop that gives up at the first null entry
RECURSIVE DisposeEachUntilNull(_, _)
DisposeEachUntilNull(items, counts) ==
    IF items = <<>> THEN counts
    ELSE IF Head(items) = Null THEN counts
    ELSE DisposeEachUntilNull(Tail(items),
                              [counts EXCEPT ![Head(items)] = @ + 1])

\* for (let disposable of disposables) if (disposable && ...) dispose()
RECURSIVE DisposeEach(_, _)
DisposeEach(items, counts) ==
    IF items = <<>> THEN counts
    ELSE IF Head(items) # Null
         THEN DisposeEach(Tail(items),
                          [counts EXCEPT ![Head(items)] = @ + 1])
         ELSE DisposeEach(Tail(items), counts)

(* dispose() on the composite: runs _callOnDispose while it is a function  *)
(* and then clears it; the closure disposes the children while its         *)
(* disposables is set and then clears that.                                *)
Dispose ==
    /\ composites < MaxDisposes
    /\ composites' = composites + 1
    /\ IF callOnDispose
       THEN /\ IF disposables.defined
               THEN /\ disposeCalls'
                          = DisposeEach(disposables.items, disposeCalls)
                    /\ disposables' = [defined |-> FALSE, items |-> <<>>]
               ELSE UNCHANGED <<disposeCalls, disposables>>
            /\ callOnDispose' = FALSE
       ELSE UNCHANGED <<disposeCalls, disposables, callOnDispose>>
    /\ UNCHANGED <<lifeVars, queryVars, editVars>>

\* the state after Disposable.from(...args)
InitDispose ==
    /\ LifeIdle
    /\ EditIdle
    /\ lines = <<0>>
    /\ cursors = {}
    /\ op = "from"
    /\ arg \in ArgLists
    /\ ret = None
    /\ hostPoint = None
    /\ disposables = [defined |-> TRUE, items |-> arg]
    /\ callOnDispose = TRUE
    /\ disposeCalls = [d \in Objects |-> 0]
    /\ composites = 0

NextDispose == Dispose

SpecDispose == InitDispose /\ [][NextDispose]_vars

\* the positions of the argument list that hold the object d
SlotsOf(args, d) == {i \in 1..Len(args) : args[i] = d}

\* C13: the first dispose() of the composite invokes dispose() once for
\* every argument that is not null, and no later dispose() of the composite
\* invokes any of them again.
DisposesEachOnce ==
    \A d \in Objects :
        disposeCalls[d]
            = IF composites = 0 THEN 0 ELSE Cardinality(SlotsOf(arg, d))

DisposesEachOnceWitness ==
    /\ composites = 2
    /\ Len(arg) = 3
    /\ arg[1] = Null
    /\ \A d \in Objects : disposeCalls[d] = 1

---------------------------------------------------------------------------
(* Position, Range and Selection (vscode-shim): the comparisons, the       *)
(* constructors that order their two points, Position.Min / Max and        *)
(* Range.intersection.  They are pure: a behaviour is one call.            *)

MaxLine == 1
MaxCharacter == 2

GeoCoordinates == (0..MaxLine) \X (0..MaxCharacter)

\* a comparison that is strict on the character as well
isBeforeOrEqualStrict(p, q) ==
    IF p.line < q.line THEN TRUE
    ELSE IF q.line < p.line THEN FALSE
    ELSE p.character < q.character

\* Position.isBeforeOrEqual
isBeforeOrEqual(p, q) ==
    IF p.line < q.line THEN TRUE
    ELSE IF q.line < p.line THEN FALSE
    ELSE p.character <= q.character

\* Position.isAfter
isAfter(p, q) == ~isBeforeOrEqual(p, q)

\* Position.isAfterOrEqual
isAfterOrEqual(p, q) == ~isBefore(p, q)

\* Position.compareTo
compareTo(p, q) ==
    IF p.line < q.line THEN -1
    ELSE IF p.line > q.line THEN 1
    ELSE IF p.character < q.character THEN -1
    ELSE IF p.character > q.character THEN 1
    ELSE 0

\* the loop of Position.Min over the positions left after pop()
RECURSIVE MinLoop(_, _)
MinLoop(positions, result) ==
    IF positions = <<>> THEN result
    ELSE MinLoop(Tail(positions),
                 IF isBefore(Head(positions), result)
                 THEN Head(positions)
                 ELSE result)

\* a Min that returns the popped position whatever the others are
MinPopped(positions) == positions[Len(positions)]

\* Position.Min(...positions)
Min(positions) ==
    MinLoop(SubSeq(positions, 1, Len(positions) - 1),
            positions[Len(positions)])

\* the loop of Position.Max over the positions left after pop()
RECURSIVE MaxLoop(_, _)
MaxLoop(positions, result) ==
    IF positions = <<>> THEN result
    ELSE MaxLoop(Tail(positions),
                 IF isAfter(Head(positions), result)
                 THEN Head(positions)
                 ELSE result)

\* Position.Max(...positions)
Max(positions) ==
    MaxLoop(SubSeq(positions, 1, Len(positions) - 1),
            positions[Len(positions)])

\* Range.isEqual
RangeIsEqual(a, b) == isEqual(a.start, b.start) /\ isEqual(a.end, b.end)

\* the result of a method that returns without a value
IsUndefined(r) == "undefined" \in DOMAIN r

\* Range.intersection; this is the receiver
intersection(this, other) ==
    LET start == Max(<<other.start, this.start>>)
        end   == Min(<<other.end, this.end>>)
    IN  IF isAfter(start, end) THEN Undefined ELSE NewRange(start, end)

\* new Selection(anchor, active): super(anchor, active), then the two fields
NewSelection(anchor, active) ==
    [ref |-> NewRef,
     start |-> NewRange(anchor, active).start,
     end |-> NewRange(anchor, active).end,
     anchor |-> anchor,
     active |-> active]

\* new Selection(anchorLine, anchorColumn, activeLine, activeColumn)
NewSelectionOfNumbers(anchorLine, anchorColumn, activeLine, activeColumn) ==
    NewSelection(NewPosition(anchorLine, anchorColumn),
                 NewPosition(activeLine, activeColumn))

\* Selection.isReversed: the anchor is the very instance stored as the end
isReversed(selection) == selection.anchor = selection.end

\* the six comparisons of p with q, and compareTo the other way round
CompareCall(p, q) ==
    /\ op = None
    /\ op' = "compare"
    /\ arg' = <<p, q>>
    /\ ret' = [isBefore |-> isBefore(p, q),
               isEqual |-> isEqual(p, q),
               isBeforeOrEqual |-> isBeforeOrEqual(p, q),
               isAfter |-> isAfter(p, q),
               isAfterOrEqual |-> isAfterOrEqual(p, q),
               compareTo |-> compareTo(p, q),
               swapped |-> compareTo(q, p)]
    /\ UNCHANGED <<lines, cursors, hostPoint>>
    /\ UNCHANGED <<lifeVars, objVars>>

\* both constructors of Range and of Selection on the points p and q
NewRangeCall(p, q) ==
    /\ op = None
    /\ op' = "range"
    /\ arg' = <<p, q>>
    /\ ret' = [range |-> NewRange(p, q),
               selection |-> NewSelection(p, q),
               ofNumbers |-> NewRangeOfNumbers(p.line, p.character,
                                               q.line, q.character),
               selectionOfNumbers |->
                   NewSelectionOfNumbers(p.line, p.character,
                                         q.line, q.character)]
    /\ UNCHANGED <<lines, cursors, hostPoint>>
    /\ UNCHANGED <<lifeVars, objVars>>

\* a.intersection(b) and b.intersection(a)
IntersectionCall(a, b) ==
    /\ op = None
    /\ op' = "intersection"
    /\ arg' = <<a, b>>
    /\ ret' = [ab |-> intersection(a, b), ba |-> intersection(b, a)]
    /\ UNCHANGED <<lines, cursors, hostPoint>>
    /\ UNCHANGED <<lifeVars, objVars>>

\* the positions and ranges a caller holds
GeoPositions(ref) == {PositionArg(ref, c) : c \in GeoCoordinates}
GeoRanges ==
    {NewRange(p, q) : p \in GeoPositions(StartRef), q \in GeoPositions(EndRef)}

InitGeometry ==
    /\ LifeIdle
    /\ QueryIdle
    /\ ObjIdle

NextGeometry ==
    \/ \E p \in GeoPositions(StartRef), q \in GeoPositions(EndRef) :
          \/ CompareCall(p, q)
          \/ NewRangeCall(p, q)
    \/ \E a \in GeoRanges, b \in GeoRanges : IntersectionCall(a, b)

SpecGeometry == InitGeometry /\ [][NextGeometry]_vars

---------------------------------------------------------------------------
(* Claims about Position, Range and Selection *)

\* the order the comparisons are to agree with: by line, then by character
LexLess(p, q) ==
    \/ p.line < q.line
    \/ p.line = q.line /\ p.character < q.character

\* the number of the given truth values that are TRUE
CountTrue(bs) == Cardinality({i \in 1..Len(bs) : bs[i]})

\* C14: of isBefore, isEqual, isAfter exactly one holds; isAfter is the
\* negation of isBeforeOrEqual and isAfterOrEqual that of isBefore;
\* compareTo is negative, zero, positive as isBefore, isEqual, isAfter
\* holds; all of it in the order by line, then by character.
ComparisonsAgree ==
    op = "compare" =>
        /\ CountTrue(<<ret.isBefore, ret.isEqual, ret.isAfter>>) = 1
        /\ ret.isAfter = ~ret.isBeforeOrEqual
        /\ ret.isAfterOrEqual = ~ret.isBefore
        /\ (ret.compareTo < 0) = ret.isBefore
        /\ (ret.compareTo = 0) = ret.isEqual
        /\ (ret.compareTo > 0) = ret.isAfter
        /\ ret.isBefore = LexLess(arg[1], arg[2])
        /\ ret.isAfter = LexLess(arg[2], arg[1])
        /\ ret.swapped = 0 - ret.compareTo

ComparisonsWitness ==
    /\ op = "compare"
    /\ ret.isEqual
    /\ ret.isBeforeOrEqual
    /\ ret.isAfterOrEqual

\* the points of a range or selection are, in this order, lo and hi
Ordered(r, lo, hi) == isEqual(r.start, lo) /\ isEqual(r.end, hi)

\* C15: every Range has start <= end; given two positions, one before the
\* other, in either order, the constructor from positions yields the
\* earlier one as start and the later one as end, and so do the constructor
\* from four numbers and both constructors of Selection.
RangeIsNormalized ==
    op = "range" =>
        /\ \A r \in {ret.range, ret.ofNumbers} :
              isBeforeOrEqual(r.start, r.end)
        /\ \A r \in {ret.selection, ret.selectionOfNumbers} :
              isBeforeOrEqual(r.start, r.end)
        /\ LET lo == IF isBefore(arg[1], arg[2]) THEN arg[1] ELSE arg[2]
               hi == IF isBefore(arg[1], arg[2]) THEN arg[2] ELSE arg[1]
           IN  ~isEqual(arg[1], arg[2]) =>
                 /\ ret.range.start = lo
                 /\ ret.range.end = hi
                 /\ ret.selection.start = lo
                 /\ ret.selection.end = hi
                 /\ Ordered(ret.ofNumbers, lo, hi)
                 /\ Ordered(ret.selectionOfNumbers, lo, hi)

RangeIsNormalizedWitness ==
    /\ op = "range"
    /\ isBefore(arg[2], arg[1])
    /\ ret.range.start = arg[2]
    /\ ret.ofNumbers.end.line = arg[1].line

\* the later of two positions and the earlier, by the order of C14
Later(p, q) == IF LexLess(p, q) THEN q ELSE p
Earlier(p, q) == IF LexLess(p, q) THEN p ELSE q

\* C16: a.intersection(b) is absent exactly when the later of the starts
\* is strictly after the earlier of the ends, and is otherwise the range
\* from the one to the other; ranges that touch give the empty range at
\* the point where they touch; a.intersection(b) and b.intersection(a) are
\* both absent or geometrically equal.
IntersectionIsOverlap ==
    op = "intersection" =>
        LET a  == arg[1]
            b  == arg[2]
            lo == Later(a.start, b.start)
            hi == Earlier(a.end, b.end)
        IN  /\ IsUndefined(ret.ab) = LexLess(hi, lo)
            /\ ~IsUndefined(ret.ab) => Ordered(ret.ab, lo, hi)
            /\ isEqual(a.end, b.start) =>
                  /\ ~IsUndefined(ret.ab)
                  /\ Ordered(ret.ab, a.end, a.end)
            /\ IsUndefined(ret.ab) = IsUndefined(ret.ba)
            /\ ~IsUndefined(ret.ab) => RangeIsEqual(ret.ab, ret.ba)

IntersectionWitness ==
    /\ op = "intersection"
    /\ isBefore(arg[1].start, arg[1].end)
    /\ isEqual(arg[1].end, arg[2].start)
    /\ isBefore(arg[2].start, arg[2].end)
    /\ ~IsUndefined(ret.ab)
    /\ isEqual(ret.ab.start, ret.ab.end)

\* C17: a Selection keeps anchor and active as given, its start and end
\* are ordered, and isReversed is true exactly when the anchor is the end
\* point, which is when the active position is before the anchor.
SelectionKeepsGesture ==
    op = "range" =>
        /\ ret.selection.anchor = arg[1]
        /\ ret.selection.active = arg[2]
        /\ isEqual(ret.selectionOfNumbers.anchor, arg[1])
        /\ isEqual(ret.selectionOfNumbers.active, arg[2])
        /\ \A sel \in {ret.selection, ret.selectionOfNumbers} :
              /\ isBeforeOrEqual(sel.start, sel.end)
              /\ isReversed(sel) = isBefore(sel.active, sel.anchor)

===========================================================================
